---- MODULE Spec2Model ----
(***************************************************************************)
(* The gacha pull engine of covey.impact: the server's GachaPicker and the *)
(* two versions of the client's GachaController.                           *)
(*                                                                         *)
(* WardrobeItem objects live in a heap and are held by reference, as in    *)
(* JavaScript: the pool and the inventory are arrays of references, so an  *)
(* item pushed into the inventory is the pool's own object.  Array indices *)
(* are 0-based as in the source; ItemAt reads position i of an array.      *)
(* Money is kept in units of 1/RefundDen coin, so that the server's        *)
(* unrounded refund pullCost * refundPercent stays exact.                  *)
(***************************************************************************)
EXTENDS Integers, Sequences, FiniteSets, TLC

\* ------------------------------------------------------------------ bounds
MaxPool == 2        \* longest item pool
MaxInitInv == 1     \* longest inventory a requester starts with
MaxOps == 3         \* calls made in one behaviour
RandomDen == 4      \* Math.random() returns one of 0/RandomDen .. (RandomDen-1)/RandomDen
RefundDen == 2      \* refundPercent is one of 0/RefundDen .. RefundDen/RefundDen

\* ------------------------------------------------------- program constants
PULL_COST == 1000
CommonWeight == 10
RareWeight == 5
UltraRareWeight == 1

rarityMapping == [common |-> CommonWeight, rare |-> RareWeight, ultraRare |-> UltraRareWeight]

Rarities == DOMAIN rarityMapping
UnmappedRarity == "legendary"
ItemIds == {"A", "B"}
PullCosts == {3, PULL_COST}
InitCurrencies == {2, 1500}
Impls == {"GachaPicker", "GachaController", "GachaController2"}

Undefined == 0      \* the reference that reads of a missing array element give
NoError == "none"
EmptyPoolMessage == "No items in the pool."
TypeErrorMessage == "TypeError"

VARIABLES
  impl,           \* which class this behaviour runs
  heap,           \* WardrobeItem objects: heap[ref] = [id, rarity]
  itemPool,       \* this._itemPool: array of references
  pullCost,       \* this._pullCost
  refundPercent,  \* this._refundPercent, as a numerator over RefundDen
  currency,       \* player.wardrobe.currency, in units of 1/RefundDen
  inventory,      \* player.wardrobe.inventory: array of references
  inventory0,     \* the inventory the requester started with
  last,           \* the latest call: its inputs, the state before it, what it threw, returned and emitted
  nOps            \* calls made so far

vars == <<impl, heap, itemPool, pullCost, refundPercent, currency, inventory, inventory0, last, nOps>>

\* ------------------------------------------------------ JavaScript numbers
\* A number is a finite value or NaN.  undefined behaves as NaN under + and >.
Num(n) == [nan |-> FALSE, v |-> n]
NaN == [nan |-> TRUE, v |-> 0]
JsAdd(a, b) == IF a.nan \/ b.nan THEN NaN ELSE Num(a.v + b.v)
JsMul(a, b) == IF a.nan \/ b.nan THEN NaN ELSE Num(a.v * b.v)
JsGt(a, b) == ~a.nan /\ ~b.nan /\ a.v > b.v

\* Math.round of the rational n/d (d > 0): the nearest integer, halves going up.
MathRound(n, d) == (2 * n + d) \div (2 * d)

\* Math.floor of the rational n/d (d > 0).
MathFloor(n, d) == n \div d

\* ------------------------------------------------------------------ arrays
\* array[i] for a 0-based i: the element, or undefined outside the array.
ItemAt(array, i) == IF i >= 0 /\ i < Len(array) THEN array[i + 1] ELSE Undefined

\* list[i] of a list of numbers for a 0-based i: undefined (NaN in a sum) outside it.
NumberAt(list, i) == IF i >= 0 /\ i < Len(list) THEN list[i + 1] ELSE NaN

IdOf(h, ref) == IF ref = Undefined THEN "undefined" ELSE h[ref].id
RarityOf(h, ref) == IF ref = Undefined THEN "undefined" ELSE h[ref].rarity

\* this._rarityMapping[rarity]: the weight, or undefined for a tier with no entry.
RarityWeight(rarity) == IF rarity \in DOMAIN rarityMapping THEN Num(rarityMapping[rarity]) ELSE NaN


Range(array) == {array[i] : i \in DOMAIN array}

\* ------------------------------------------------- results of one call
\* The economy state a notification or a PullResult carries.  The inventory
\* is the array itself, so it is compared by its references.
Snapshot(c, inv) == [currency |-> c, inventory |-> inv]
NoSnapshot == Snapshot(0, <<>>)

\* What a call leaves behind: the error it threw (or NoError), the item it
\* returned and its index, the requester's state and the heap after it, the
\* notifications it emitted, the snapshot it returned (has |-> FALSE when the
\* call returns no snapshot), and the draw's intermediate values.
Outcome(err, item, index, c, inv, h, emits, has, ret, list, rv) ==
  [error |-> err, item |-> item, index |-> index, currency |-> c,
   inventory |-> inv, heap |-> h, emits |-> emits, hasReturned |-> has,
   returned |-> ret, rarityList |-> list, randomValue |-> rv]

\* ------------------------------------------------ GachaPicker (server)
\* rarityList after the first n iterations of the loop of lines 69-72.
RECURSIVE RarityList(_, _, _)
RarityList(pool, h, n) ==
  IF n = 0 THEN <<>>
  ELSE LET prev == RarityList(pool, h, n - 1)
           i == n - 1
           rarityIndex == IF i > 0 THEN i - 1 ELSE 0
       IN Append(prev, JsAdd(RarityWeight(RarityOf(h, ItemAt(pool, i))),
                             NumberAt(prev, rarityIndex)))

\* Math.random() * rarityList[rarityList.length - 1], times RandomDen
\* (Math.random() being rnd / RandomDen).
RandomValue(list, rnd) == JsMul(Num(rnd), NumberAt(list, Len(list) - 1))

\* this._rarityMapping[this._itemPool[i].rarity] > randomValue, both sides times RandomDen.
WeightExceeds(pool, h, i, rv) ==
  JsGt(JsMul(Num(RandomDen), RarityWeight(RarityOf(h, ItemAt(pool, i)))), rv)

\* indexOfPulledItem when the loop of lines 77-81 ends: the first index whose
\* own weight exceeds the random value, or the pool's length.
IndexOfPulledItem(pool, h, rv) ==
  LET hits == {i \in 0 .. Len(pool) - 1 : WeightExceeds(pool, h, i, rv)}
  IN IF hits = {} THEN Len(pool)
     ELSE CHOOSE i \in hits : \A j \in hits : i <= j

\* The loop's index returned as it is, without the range check of lines 82-85.
PulledIndexNoFallback(index, length) == index

\* Lines 82-85: the index is used when it is in range, index 0 otherwise.
PulledIndex(index, length) ==
  IF index >= 0 /\ index < length THEN index ELSE 0

GachaPicker_getOneItem(pool, h, rnd) ==
  LET list == RarityList(pool, h, Len(pool))
      rv == RandomValue(list, rnd)
  IN [index |-> PulledIndex(IndexOfPulledItem(pool, h, rv), Len(pool)),
      rarityList |-> list, randomValue |-> rv]

\* inv.find(item => item.id === pulledItem.id): the callback runs on the
\* elements in order until one matches.  Reading .id of undefined throws, so
\* the scan throws at the first element that is undefined, or at the first
\* element at all when the pulled item is undefined, unless a match came first.
\* On an empty array the callback never runs.
FindById(inv, h, item) ==
  LET Throws(i) == inv[i] = Undefined \/ item = Undefined
      Matches(i) == ~Throws(i) /\ h[inv[i]].id = h[item].id
      threw == \E i \in DOMAIN inv :
                  Throws(i) /\ \A j \in 1 .. i - 1 : ~Matches(j)
  IN [threw |-> threw, found |-> ~threw /\ \E i \in DOMAIN inv : Matches(i)]

\* Wardrobe.addWardrobeItem: inserts the item unless one with its id is there;
\* tells whether it inserted.
Wardrobe_addWardrobeItem(inv, h, item) ==
  LET scan == FindById(inv, h, item)
  IN IF scan.threw THEN [threw |-> TRUE, added |-> FALSE, inventory |-> inv]
     ELSE IF scan.found THEN [threw |-> FALSE, added |-> FALSE, inventory |-> inv]
     ELSE [threw |-> FALSE, added |-> TRUE, inventory |-> Append(inv, item)]

\* Player.toPlayerModel(): the player's state as it stands, wardrobe included.
Player_toPlayerModel(c, inv) == Snapshot(c, inv)

\* The debit of line 107 hoisted above the length check of line 106.
GachaPicker_throwAfterDebit ==
  Outcome(EmptyPoolMessage, Undefined, -1, currency - pullCost * RefundDen,
          inventory, heap, <<>>, FALSE, NoSnapshot, <<>>, NaN)

\* Line 118, reached with nothing done: throw new Error('No items in the pool.').
GachaPicker_throwEmptyPool ==
  Outcome(EmptyPoolMessage, Undefined, -1, currency, inventory, heap, <<>>,
          FALSE, NoSnapshot, <<>>, NaN)

GachaPicker_pull(rnd) ==
  IF Len(itemPool) > 0
  THEN LET debited == currency - pullCost * RefundDen
           draw == GachaPicker_getOneItem(itemPool, heap, rnd)
           pulledItem == ItemAt(itemPool, draw.index)
           add == Wardrobe_addWardrobeItem(inventory, heap, pulledItem)
           newCurrency == IF ~add.added THEN debited + pullCost * refundPercent
                                        ELSE debited
       IN IF \E i \in DOMAIN itemPool : itemPool[i] = Undefined
          THEN \* line 71 reads .rarity of every element: an undefined one throws,
               \* after the debit of line 107
               Outcome(TypeErrorMessage, Undefined, -1, debited, inventory, heap,
                       <<>>, FALSE, NoSnapshot, <<>>, NaN)
          ELSE IF add.threw
          THEN Outcome(TypeErrorMessage, Undefined, draw.index, debited, inventory,
                       heap, <<>>, FALSE, NoSnapshot, draw.rarityList, draw.randomValue)
          ELSE Outcome(NoError, pulledItem, draw.index, newCurrency, add.inventory,
                       heap, <<Player_toPlayerModel(newCurrency, add.inventory)>>,
                       FALSE, NoSnapshot, draw.rarityList, draw.randomValue)
  ELSE GachaPicker_throwEmptyPool


\* this._itemPool.push(item), with no look at the item's rarity.
GachaPicker_addItemToPool(item) ==
  [heap |-> Append(heap, item), itemPool |-> Append(itemPool, Len(heap) + 1),
   error |-> NoError]

\* ---------------------------------------------- GachaController (client)
\* Math.floor(Math.random() * max), Math.random() being rnd / RandomDen.
GachaController_getOneItem(pool, rnd) == MathFloor(rnd * Len(pool), RandomDen)

\* Math.round(this._pullCost * this._refundPercent), in units of 1/RefundDen.
RoundedRefund == RefundDen * MathRound(pullCost * refundPercent, RefundDen)

\* The wardrobe setter of PlayerController: stores the model and publishes it
\* to the player's own 'wardrobeChange' listeners.
PlayerController_setWardrobe(model) ==
  [currency |-> model.currency, inventory |-> model.inventory, emits |-> <<model>>]

\* Lines 101-133.
GachaController_pull(rnd) ==
  IF Len(itemPool) > 0
  THEN LET debited == currency - pullCost * RefundDen
           index == GachaController_getOneItem(itemPool, rnd)
           pulledItem == ItemAt(itemPool, index)
           scan == FindById(inventory, heap, pulledItem)
       IN IF scan.threw
          THEN \* line 111 throws before anything is stored
               Outcome(TypeErrorMessage, Undefined, index, currency, inventory, heap,
                       <<>>, FALSE, NoSnapshot, <<>>, NaN)
          ELSE LET pulledItemIsDupe == scan.found
                   newCurrency == IF pulledItemIsDupe THEN debited + RoundedRefund
                                                      ELSE debited
                   newInventory == IF pulledItemIsDupe THEN inventory
                                                       ELSE Append(inventory, pulledItem)
                   newWardrobeModel == Snapshot(newCurrency, newInventory)
                   set == PlayerController_setWardrobe(newWardrobeModel)
               IN Outcome(NoError, pulledItem, index, set.currency, set.inventory, heap,
                          set.emits, TRUE, newWardrobeModel, <<>>, NaN)
  ELSE Outcome(EmptyPoolMessage, Undefined, -1, currency, inventory, heap, <<>>,
               FALSE, NoSnapshot, <<>>, NaN)

\* toGachaModel(): the picker's configuration as it stands (its id and its
\* rarity mapping, which nothing changes, are left out).
GachaController_toGachaModel(pool, cost, refund) ==
  [itemPool |-> pool, pullCost |-> cost, refundPercent |-> refund]

\* set itemPool(newPool), the same in both versions of the class: the pool
\* becomes the given array (objects new to the heap here) and 'gachaUpdate'
\* is emitted with the new model.
GachaController_setItemPool(newPool) ==
  LET refs == [i \in 1 .. Len(newPool) |-> Len(heap) + i]
  IN [heap |-> heap \o newPool, itemPool |-> refs,
      gachaUpdates |-> <<GachaController_toGachaModel(refs, pullCost, refundPercent)>>]

\* set pullCost(newCost) and set refundPercent(newRefund): plain stores, no event.
GachaController_setPullCost(newCost) == newCost
GachaController_setRefundPercent(newRefund) == newRefund

\* The callback of lines 276-278, item => { item.id = pulledItem.id; }, run by
\* find on every element (it returns undefined, so find never stops): each
\* object the inventory holds gets the pulled item's id.
AssignIds(h, inv, id) ==
  [ref \in DOMAIN h |-> IF ref \in Range(inv) THEN [h[ref] EXCEPT !.id = id] ELSE h[ref]]

\* The elements the callback has assigned to when it meets an undefined
\* element (item.id = ... throws there): those before the first undefined one.
BeforeFirstUndefined(inv) ==
  SubSeq(inv, 1, (CHOOSE i \in DOMAIN inv :
                    inv[i] = Undefined /\ \A j \in 1 .. i - 1 : inv[j] # Undefined) - 1)

\* Lines 270-296: find returns undefined whatever the inventory holds, so the
\* item is always pushed; the new model is emitted and never stored in the player.
GachaController2_pull(rnd) ==
  IF Len(itemPool) > 0
  THEN LET debited == currency - pullCost * RefundDen
           index == GachaController_getOneItem(itemPool, rnd)
           pulledItem == ItemAt(itemPool, index)
       IN IF pulledItem = Undefined /\ inventory # <<>>
          THEN \* pulledItem.id throws at the first element
               Outcome(TypeErrorMessage, Undefined, index, currency, inventory, heap,
                       <<>>, FALSE, NoSnapshot, <<>>, NaN)
          ELSE IF Undefined \in Range(inventory)
          THEN \* the elements before the undefined one keep their new id
               Outcome(TypeErrorMessage, Undefined, index, currency, inventory,
                       AssignIds(heap, BeforeFirstUndefined(inventory),
                                 IdOf(heap, pulledItem)),
                       <<>>, FALSE, NoSnapshot, <<>>, NaN)
          ELSE LET newHeap == AssignIds(heap, inventory, IdOf(heap, pulledItem))
                   pulledItemIsNew == FALSE
                   newCurrency == IF pulledItemIsNew THEN debited + RoundedRefund
                                                     ELSE debited
                   newInventory == IF pulledItemIsNew THEN inventory
                                                      ELSE Append(inventory, pulledItem)
                   newWardrobeModel == Snapshot(newCurrency, newInventory)
               IN Outcome(NoError, pulledItem, index, currency, newInventory, newHeap,
                          <<newWardrobeModel>>, FALSE, NoSnapshot, <<>>, NaN)
  ELSE Outcome(EmptyPoolMessage, Undefined, -1, currency, inventory, heap, <<>>,
               FALSE, NoSnapshot, <<>>, NaN)


\* ------------------------------------------------------------ the machine
WardrobeItems == [id : ItemIds, rarity : Rarities]
SeqsUpTo(S, n) == UNION {[1 .. k -> S] : k \in 0 .. n}

\* Items handed to addItemToPool: of a mapped tier and of a tier with no weight.
AddableItems == [id : {"C"}, rarity : {"ultraRare", UnmappedRarity}]
NoItem == [id |-> "", rarity |-> ""]

\* Values handed to the client's setters.
NewPools == {p \in SeqsUpTo([id : {"B"}, rarity : {"rare"}], 1) : Len(p) <= MaxPool}
NewPullCosts == {7}
NewRefundPercents == {0, RefundDen}

UniqueIds(items) ==
  \A i, j \in DOMAIN items : i # j => items[i].id # items[j].id

\* Pools as configured: items of mapped tiers, identifiers unique.
InitPools == {p \in SeqsUpTo(WardrobeItems, MaxPool) : UniqueIds(p)}

\* Inventories a requester starts with: objects of their own, identifiers unique.
InitInventories ==
  {v \in SeqsUpTo([id : ItemIds, rarity : {"common"}], MaxInitInv) : UniqueIds(v)}

Before == [currency |-> currency, inventory |-> inventory, heap |-> heap,
           itemPool |-> itemPool]

Call(op, arg, out, updates) ==
  [op |-> op, arg |-> arg, before |-> Before, gachaUpdates |-> updates,
   error |-> out.error,
   item |-> out.item, index |-> out.index, emits |-> out.emits,
   hasReturned |-> out.hasReturned, returned |-> out.returned,
   rarityList |-> out.rarityList, randomValue |-> out.randomValue]

Init ==
  /\ impl \in Impls
  /\ \E p \in InitPools, v \in InitInventories :
       /\ heap = p \o v
       /\ itemPool = [i \in 1 .. Len(p) |-> i]
       /\ inventory = [i \in 1 .. Len(v) |-> Len(p) + i]
       /\ inventory0 = inventory
  /\ pullCost \in PullCosts
  /\ refundPercent \in 0 .. RefundDen
  /\ currency \in {c * RefundDen : c \in InitCurrencies}
  /\ nOps = 0
  /\ last = [op |-> "init", arg |-> NoItem, before |-> Before, gachaUpdates |-> <<>>,
             error |-> NoError, item |-> Undefined, index |-> -1, emits |-> <<>>,
             hasReturned |-> FALSE, returned |-> NoSnapshot, rarityList |-> <<>>,
             randomValue |-> NaN]

\* One call of pull: the requester's state and the heap become the outcome's.
Pulled(out) ==
  /\ currency' = out.currency
  /\ inventory' = out.inventory
  /\ heap' = out.heap
  /\ last' = Call("pull", NoItem, out, <<>>)
  /\ nOps' = nOps + 1
  /\ UNCHANGED <<impl, itemPool, pullCost, refundPercent, inventory0>>

ServerPull ==
  /\ impl = "GachaPicker"
  /\ nOps < MaxOps
  /\ \E rnd \in 0 .. RandomDen - 1 : Pulled(GachaPicker_pull(rnd))

ClientPull ==
  /\ impl = "GachaController"
  /\ nOps < MaxOps
  /\ \E rnd \in 0 .. RandomDen - 1 : Pulled(GachaController_pull(rnd))

ClientPull2 ==
  /\ impl = "GachaController2"
  /\ nOps < MaxOps
  /\ \E rnd \in 0 .. RandomDen - 1 : Pulled(GachaController2_pull(rnd))

ServerAddItem ==
  /\ impl = "GachaPicker"
  /\ nOps < MaxOps
  /\ Len(itemPool) < MaxPool
  /\ \E item \in AddableItems :
       LET out == GachaPicker_addItemToPool(item)
       IN /\ heap' = out.heap
          /\ itemPool' = out.itemPool
          /\ last' = Call("addItemToPool", item,
                          Outcome(out.error, Undefined, -1, currency, inventory,
                                  out.heap, <<>>, FALSE, NoSnapshot, <<>>, NaN),
                          <<>>)
          /\ nOps' = nOps + 1
          /\ UNCHANGED <<impl, pullCost, refundPercent, currency, inventory, inventory0>>

\* A setter call that throws nothing and leaves the requester alone.
SetterCall(op, h, updates) ==
  Call(op, NoItem,
       Outcome(NoError, Undefined, -1, currency, inventory, h, <<>>, FALSE,
               NoSnapshot, <<>>, NaN),
       updates)

ClientSetItemPool ==
  /\ impl \in {"GachaController", "GachaController2"}
  /\ nOps < MaxOps
  /\ \E newPool \in NewPools :
       LET out == GachaController_setItemPool(newPool)
       IN /\ heap' = out.heap
          /\ itemPool' = out.itemPool
          /\ last' = SetterCall("setItemPool", out.heap, out.gachaUpdates)
  /\ nOps' = nOps + 1
  /\ UNCHANGED <<impl, pullCost, refundPercent, currency, inventory, inventory0>>

ClientSetPullCost ==
  /\ impl \in {"GachaController", "GachaController2"}
  /\ nOps < MaxOps
  /\ \E newCost \in NewPullCosts : pullCost' = GachaController_setPullCost(newCost)
  /\ last' = SetterCall("setPullCost", heap, <<>>)
  /\ nOps' = nOps + 1
  /\ UNCHANGED <<impl, heap, itemPool, refundPercent, currency, inventory, inventory0>>

ClientSetRefundPercent ==
  /\ impl \in {"GachaController", "GachaController2"}
  /\ nOps < MaxOps
  /\ \E newRefund \in NewRefundPercents :
       refundPercent' = GachaController_setRefundPercent(newRefund)
  /\ last' = SetterCall("setRefundPercent", heap, <<>>)
  /\ nOps' = nOps + 1
  /\ UNCHANGED <<impl, heap, itemPool, pullCost, currency, inventory, inventory0>>

Next ==
  \/ ServerPull \/ ClientPull \/ ClientPull2 \/ ServerAddItem
  \/ ClientSetItemPool \/ ClientSetPullCost \/ ClientSetRefundPercent

Spec == Init /\ [][Next]_vars


\* --------------------------------------------------------------- claims
PullCalled == last.op = "pull"
PullDone == last.op = "pull" /\ last.error = NoError
HasId(h, inv, id) == \E i \in DOMAIN inv : IdOf(h, inv[i]) = id
InventoryIdsUnique(h, inv) ==
  \A i, j \in DOMAIN inv : i # j => IdOf(h, inv[i]) # IdOf(h, inv[j])
PoolIds(h, pool) == {IdOf(h, pool[i]) : i \in DOMAIN pool}
PoolIdsUnique(h, pool) == Cardinality(PoolIds(h, pool)) = Len(pool)

\* The drawn item's identifier was in the inventory before the call.
IsDuplicate ==
  HasId(last.before.heap, last.before.inventory, IdOf(last.before.heap, last.item))

\* C1: after every pull on a non-empty pool the requester's currency is the
\* currency before minus pullCost, plus round(pullCost * refundFraction) when
\* the drawn identifier was already in the inventory.
C1_CurrencyDelta ==
  PullDone =>
    currency = last.before.currency - pullCost * RefundDen
               + (IF IsDuplicate THEN RoundedRefund ELSE 0)

\* C2: a pull on an empty pool raises the empty-pool error, leaves the
\* requester's currency and inventory as they were and emits no notification.
C2_EmptyPoolNoOp ==
  (PullCalled /\ last.before.itemPool = <<>>) =>
    /\ last.error = EmptyPoolMessage
    /\ currency = last.before.currency
    /\ inventory = last.before.inventory
    /\ heap = last.before.heap
    /\ last.emits = <<>>

C2_Witness ==
  /\ PullCalled
  /\ impl = "GachaPicker"
  /\ itemPool = <<>>
  /\ last.error = EmptyPoolMessage
  /\ inventory # <<>>
  /\ nOps >= 2

\* C3: a successful pull of an identifier already in the inventory leaves the
\* inventory's size unchanged; any other successful pull appends exactly the
\* drawn item.
C3_DuplicateDetection ==
  PullDone =>
    IF IsDuplicate
    THEN Len(inventory) = Len(last.before.inventory)
    ELSE inventory = Append(last.before.inventory, last.item)

\* C4: on a non-empty pool the draw returns, for every random value, an index
\* within 0 .. length-1 and so a member of the pool; a pool of one item always
\* yields that item.
C4_DrawInPool ==
  /\ (PullCalled /\ last.before.itemPool # <<>>) =>
       /\ last.error = NoError
       /\ last.index \in 0 .. Len(itemPool) - 1
       /\ last.item = ItemAt(itemPool, last.index)
       /\ last.item \in Range(itemPool)
       /\ Len(itemPool) = 1 => last.item = itemPool[1]
  /\ itemPool # <<>> =>
       \A rnd \in 0 .. RandomDen - 1 :
          /\ GachaPicker_getOneItem(itemPool, heap, rnd).index \in 0 .. Len(itemPool) - 1
          /\ GachaController_getOneItem(itemPool, rnd) \in 0 .. Len(itemPool) - 1

C4_Witness ==
  /\ PullDone
  /\ impl = "GachaController"
  /\ Len(itemPool) >= 2
  /\ last.index = 1
  /\ last.item = itemPool[2]


\* The indices the server's draw can return on the current pool, over every
\* random value.
PossibleIndices ==
  {GachaPicker_getOneItem(itemPool, heap, rnd).index : rnd \in 0 .. RandomDen - 1}

AllMapped == \A i \in DOMAIN itemPool : RarityOf(heap, itemPool[i]) \in Rarities
WeightAt(i) == rarityMapping[RarityOf(heap, ItemAt(itemPool, i))]

\* C5: on a pool whose items all share one rarity tier, each item, not only
\* the one at index 0, is a possible result of the weighted draw.
C5_UniformWithinTier ==
  (/\ PullDone
   /\ impl = "GachaPicker"
   /\ itemPool # <<>>
   /\ Len(itemPool) <= RandomDen
   /\ AllMapped
   /\ \A i, j \in DOMAIN itemPool :
         RarityOf(heap, itemPool[i]) = RarityOf(heap, itemPool[j]))
  => PossibleIndices = 0 .. Len(itemPool) - 1

\* C6: addItemToPool with an item of an unmapped tier fails with
\* UnknownRarityError and leaves the pool as it was, so every item of the
\* pool has a tier with a weight entry.
C6_AddItemValidates ==
  /\ (last.op = "addItemToPool" /\ last.arg.rarity \notin Rarities) =>
       /\ last.error = "UnknownRarityError"
       /\ itemPool = last.before.itemPool
  /\ AllMapped

\* C7: a successful pull emits exactly one notification, whose payload is the
\* requester's economy state after the pull (and the snapshot the pull
\* returns, where it returns one); a failed pull emits none.
C7_OneNotification ==
  PullCalled =>
    IF last.error = NoError
    THEN /\ Len(last.emits) = 1
         /\ last.emits[1] = Snapshot(currency, inventory)
         /\ last.hasReturned => last.returned = last.emits[1]
    ELSE last.emits = <<>>

\* C8: a pull mutates no item: every item of the pool and every item the
\* inventory held keeps its identifier and rarity, the pool keeps its items
\* in their order, and identifiers unique within the pool stay unique.
C8_ItemsImmutable ==
  PullCalled =>
    /\ \A ref \in Range(last.before.itemPool) \cup Range(last.before.inventory) :
          ref # Undefined => heap[ref] = last.before.heap[ref]
    /\ itemPool = last.before.itemPool
    /\ PoolIdsUnique(last.before.heap, last.before.itemPool)
         => PoolIdsUnique(heap, itemPool)

\* C9: the weighted draw starts its cumulative weights at the first item's
\* weight, draws r in [0, totalWeight), returns the first index whose own
\* weight exceeds r (index 0 when none does), so that an item at an index
\* i > 0 whose weight exceeds that of every earlier item is a possible result.
C9_WeightedDraw ==
  /\ (PullDone /\ impl = "GachaPicker" /\ AllMapped) =>
       LET total == LET S[n \in 0 .. Len(itemPool)] ==
                          IF n = 0 THEN 0 ELSE S[n - 1] + WeightAt(n - 1)
                    IN S[Len(itemPool)]
           hits == {i \in 0 .. Len(itemPool) - 1 :
                      WeightExceeds(itemPool, heap, i, last.randomValue)}
       IN /\ last.rarityList[1] = Num(WeightAt(0))
          /\ last.rarityList[Len(itemPool)] = Num(total)
          /\ ~last.randomValue.nan
          /\ 0 <= last.randomValue.v /\ last.randomValue.v < RandomDen * total
          /\ last.index = IF hits = {} THEN 0
                          ELSE CHOOSE i \in hits : \A j \in hits : i <= j
  /\ (PullDone /\ impl = "GachaPicker" /\ AllMapped) =>
       \A i \in 1 .. Len(itemPool) - 1 :
          (\A j \in 0 .. i - 1 : WeightAt(i) > WeightAt(j)) => i \in PossibleIndices

\* The identifiers of the items the pool holds or has held: every object of
\* the heap but those the requester started with.
PooledIds == {heap[ref].id : ref \in DOMAIN heap \ Range(inventory0)}

\* C10: an inventory that starts with no two items of one identifier never
\* holds two, and never grows beyond its initial size plus the number of
\* distinct identifiers in the pool (over the pools the picker has been given,
\* where the pool was replaced or extended between pulls).
C10_InventoryUnique ==
  /\ InventoryIdsUnique(heap, inventory)
  /\ Len(inventory) <= Len(inventory0) + Cardinality(PooledIds)

====
